---- MODULE Spec2Model ----
(***************************************************************************)
(* Model of talon/signature/bruteforce.py: brute-force extraction of the   *)
(* signature block of a plain-text e-mail body.                            *)
(*                                                                         *)
(* A Python str is a sequence of characters; a character is a one-letter   *)
(* TLA+ string.  Characters outside ASCII are written by code point name   *)
(* ("u00FC" is u-umlaut).  Offsets are Python's: 0-based.                  *)
(***************************************************************************)
EXTENDS Integers, Sequences, FiniteSets, TLC

(***************************************************************************)
(* Characters and character classes of the regular expressions             *)
(***************************************************************************)
LowerSeq == <<"a","b","c","d","e","f","g","h","i","j","k","l","m",
              "n","o","p","q","r","s","t","u","v","w","x","y","z">>
UpperSeq == <<"A","B","C","D","E","F","G","H","I","J","K","L","M",
              "N","O","P","Q","R","S","T","U","V","W","X","Y","Z">>
AZ == {LowerSeq[i] : i \in DOMAIN LowerSeq}
UpperAZ == {UpperSeq[i] : i \in DOMAIN UpperSeq}
Digits == {"0","1","2","3","4","5","6","7","8","9"}
\* a-umlaut, o-umlaut, u-umlaut, their capitals, sharp s
Umlauts == {"u00E4","u00F6","u00FC","u00C4","u00D6","u00DC","u00DF"}
\* what \s matches and str.strip() removes
Whitespace == {" ", "\t", "\n", "\r", "\f"}
\* what \w matches
WordChars == AZ \cup Digits \cup Umlauts \cup {"_"}
\* [\s,!]
TailChars == Whitespace \cup {",", "!"}

\* regex.I: a character is compared through its lower-case form
FoldMap == [c \in UpperAZ |-> LowerSeq[CHOOSE i \in DOMAIN UpperSeq : UpperSeq[i] = c]]
Fold(c) == IF c \in UpperAZ THEN FoldMap[c] ELSE c

Min(S) == CHOOSE x \in S : \A y \in S : x <= y
Max(S) == CHOOSE x \in S : \A y \in S : x >= y

(***************************************************************************)
(* Python str operations                                                   *)
(***************************************************************************)
\* s[a:b] for 0 <= a, b (the slice is clamped to the string)
Slice(s, a, b) ==
    LET hi == IF b > Len(s) THEN Len(s) ELSE b
    IN  IF a >= hi THEN << >> ELSE SubSeq(s, a + 1, hi)

\* s[:-n] for n >= 0 (s[:-0] is s[:0], the empty string)
DropLast(s, n) == IF n = 0 \/ n >= Len(s) THEN << >> ELSE SubSeq(s, 1, Len(s) - n)

\* the offset of the first character of s at or after i (1-based) that is not
\* in chars, Len(s) + 1 if none; and of the last one at or before i, 0 if none
RECURSIVE FirstKept(_, _, _)
FirstKept(s, chars, i) ==
    IF i > Len(s) \/ s[i] \notin chars THEN i ELSE FirstKept(s, chars, i + 1)
RECURSIVE LastKept(_, _, _)
LastKept(s, chars, i) ==
    IF i < 1 \/ s[i] \notin chars THEN i ELSE LastKept(s, chars, i - 1)

\* s.strip(chars)
StripChars(s, chars) ==
    LET a == FirstKept(s, chars, 1)
    IN  IF a > Len(s) THEN << >> ELSE SubSeq(s, a, LastKept(s, chars, Len(s)))

\* s.strip()
Strip(s) == StripChars(s, Whitespace)

\* s.startswith(p)
StartsWith(s, p) == Len(p) <= Len(s) /\ SubSeq(s, 1, Len(p)) = p
\* s.endswith(p)
EndsWith(s, p) == Len(p) <= Len(s) /\ SubSeq(s, Len(s) - Len(p) + 1, Len(s)) = p

\* s.splitlines(): lines end at \n, \r\n, \r or \f; a final line break opens
\* no further line.  SplitFrom splits s from its a-th character on.
RECURSIVE SplitFrom(_, _)
SplitFrom(s, a) ==
    IF a > Len(s) THEN << >>
    ELSE LET breaks == {i \in a..Len(s) : s[i] \in {"\n", "\r", "\f"}}
         IN  IF breaks = {} THEN <<SubSeq(s, a, Len(s))>>
             ELSE LET i == Min(breaks)
                      crlf == s[i] = "\r" /\ i < Len(s) /\ s[i + 1] = "\n"
                  IN  <<SubSeq(s, a, i - 1)>> \o SplitFrom(s, IF crlf THEN i + 2 ELSE i + 1)
splitlines(s) == SplitFrom(s, 1)

\* d.join(parts)
RECURSIVE join(_, _)
join(d, parts) ==
    IF parts = << >> THEN << >>
    ELSE IF Len(parts) = 1 THEN parts[1]
    ELSE parts[1] \o d \o join(d, Tail(parts))

(***************************************************************************)
(* Regular expressions: the syntax tree of a pattern and the set of        *)
(* offsets at which a match starting at one of the offsets I can end       *)
(* (flags I, M, S: case folded, ^ and $ at every \n, . matches anything)   *)
(***************************************************************************)
Lit(c) == <<"lit", c>>
Cls(S) == <<"cls", S>>
NotCls(S) == <<"ncls", S>>
AnyChar == <<"any">>
Bol == <<"bol">>
Eol == <<"eol">>
Cat(rs) == <<"cat", rs>>
Alt(rs) == <<"alt", rs>>
Star(r) == <<"star", r>>
Opt(r) == <<"opt", r>>
Plus(r) == <<"cat", <<r, <<"star", r>>>>>>
Rep(r, lo, hi) == <<"rep", r, lo, hi>>
Word(w) == <<"cat", [i \in DOMAIN w |-> <<"lit", w[i]>>]>>

\* whether the one-character pattern r matches the character c
CharMatches(r, c) ==
    CASE r[1] = "lit"  -> Fold(c) = r[2]
      [] r[1] = "cls"  -> Fold(c) \in r[2]
      [] r[1] = "ncls" -> Fold(c) \notin r[2]
      [] r[1] = "any"  -> TRUE

\* the offset at which the run of characters matching r that starts at offset
\* i ends
RunEnd(r, s, i) ==
    Min({k \in i..(Len(s) - 1) : ~CharMatches(r, s[k + 1])} \cup {Len(s)})

\* every starred pattern of the module is a one-character pattern: r* started
\* at offset i can end anywhere in the run of characters matching r
RECURSIVE Ends(_, _, _)
RECURSIVE CatEnds(_, _, _, _)
RECURSIVE RepEnds(_, _, _, _, _, _)
Ends(r, s, I) ==
    IF I = {} THEN {}
    ELSE CASE r[1] \in {"lit", "cls", "ncls", "any"} ->
                  {i + 1 : i \in {j \in I : j < Len(s) /\ CharMatches(r, s[j + 1])}}
           [] r[1] = "bol"  -> {i \in I : i = 0 \/ s[i] = "\n"}
           [] r[1] = "eol"  -> {i \in I : i = Len(s) \/ s[i + 1] = "\n"}
           [] r[1] = "cat"  -> CatEnds(r[2], 1, s, I)
           [] r[1] = "alt"  -> UNION {Ends(r[2][k], s, I) : k \in DOMAIN r[2]}
           [] r[1] = "star" -> UNION {i..RunEnd(r[2], s, i) : i \in I}
           [] r[1] = "opt"  -> I \cup Ends(r[2], s, I)
           [] r[1] = "rep"  -> RepEnds(r[2], r[3], r[4], 0, s, I)
CatEnds(rs, k, s, I) ==
    IF k > Len(rs) \/ I = {} THEN I
    ELSE CatEnds(rs, k + 1, s, Ends(rs[k], s, I))
RepEnds(r, lo, hi, n, s, I) ==
    IF n = hi \/ I = {} THEN (IF n >= lo THEN I ELSE {})
    ELSE (IF n >= lo THEN I ELSE {}) \cup RepEnds(r, lo, hi, n + 1, s, Ends(r, s, I))

\* pattern.search(s): the leftmost offset at which the pattern matches, -1 for
\* no match
SearchStart(re, s) ==
    LET starts == {i \in 0..Len(s) : Ends(re, s, {i}) # {}}
    IN  IF starts = {} THEN -1 ELSE Min(starts)

(***************************************************************************)
(* The patterns of the module                                              *)
(***************************************************************************)
ENG_GER_CHARS_SPACES == AZ \cup Umlauts \cup Whitespace

\* [\s,!]*$
TailEol == <<Star(Cls(TailChars)), Eol>>
\* "grüße", "grüßen", "wünsche"
Gruesse == <<"g","r","u00FC","u00DF","e">>
Wuensche == <<"w","u00FC","n","s","c","h","e">>
MitFreundlichenGruessen ==
    <<Word(<<"m","i","t">>), Lit(" "),
      Word(<<"f","r","e","u","n","d","l","i","c","h","e","n">>), Lit(" "),
      Word(Gruesse), Lit("n")>>

RE_SIGNATURE_ALTERNATIVES ==
    << \* ^[\s]*--*[\s]*[a-z \.]*$
       Cat(<<Bol, Star(Cls(Whitespace)), Lit("-"), Star(Lit("-")),
             Star(Cls(Whitespace)), Star(Cls(AZ \cup {" ", "."})), Eol>>),
       \* ^[\s]*—+[\s]*$
       Cat(<<Bol, Star(Cls(Whitespace)), Plus(Lit("u2014")),
             Star(Cls(Whitespace)), Eol>>),
       \* ^thanks?\s?(?:you?\s*)?[a-z]*[\s,!]*$
       Cat(<<Bol, Word(<<"t","h","a","n","k">>), Opt(Lit("s")), Opt(Cls(Whitespace)),
             Opt(Cat(<<Word(<<"y","o">>), Opt(Lit("u")), Star(Cls(Whitespace))>>)),
             Star(Cls(AZ))>> \o TailEol),
       \* ^regards\s?[a-z]*[\s,!]*$
       Cat(<<Bol, Word(<<"r","e","g","a","r","d","s">>), Opt(Cls(Whitespace)),
             Star(Cls(AZ))>> \o TailEol),
       \* ^(?:with?\s*)?kind\sregards[\sa-z]*[\s,!]*$
       Cat(<<Bol,
             Opt(Cat(<<Word(<<"w","i","t">>), Opt(Lit("h")), Star(Cls(Whitespace))>>)),
             Word(<<"k","i","n","d">>), Cls(Whitespace),
             Word(<<"r","e","g","a","r","d","s">>),
             Star(Cls(Whitespace \cup AZ))>> \o TailEol),
       \* ^take\scare\s?[a-z]*[\s,!]*$
       Cat(<<Bol, Word(<<"t","a","k","e">>), Cls(Whitespace), Word(<<"c","a","r","e">>),
             Opt(Cls(Whitespace)), Star(Cls(AZ))>> \o TailEol),
       \* ^cheers\s?[a-z]*[\s,!]*$
       Cat(<<Bol, Word(<<"c","h","e","e","r","s">>), Opt(Cls(Whitespace)),
             Star(Cls(AZ))>> \o TailEol),
       \* ^sincerely[\s,!]*$
       Cat(<<Bol, Word(<<"s","i","n","c","e","r","e","l","y">>)>> \o TailEol),
       \* ^best[ a-z]*[\s,!]*$
       Cat(<<Bol, Word(<<"b","e","s","t">>), Star(Cls(AZ \cup {" "}))>> \o TailEol),
       \* ^ihre?[\s,!]*$
       Cat(<<Bol, Word(<<"i","h","r">>), Opt(Lit("e"))>> \o TailEol),
       \* ^deine?[\s,!]*$
       Cat(<<Bol, Word(<<"d","e","i","n">>), Opt(Lit("e"))>> \o TailEol),
       \* ^{ENG_GER_CHARS_SPACES}*grüße{ENG_GER_CHARS_SPACES}*[\s,!]*$
       Cat(<<Bol, Star(Cls(ENG_GER_CHARS_SPACES)), Word(Gruesse),
             Star(Cls(ENG_GER_CHARS_SPACES))>> \o TailEol),
       \* ^vielen?\sdank[\s,!]*$
       Cat(<<Bol, Word(<<"v","i","e","l","e">>), Opt(Lit("n")), Cls(Whitespace),
             Word(<<"d","a","n","k">>)>> \o TailEol),
       \* die\sbesten\swünsche[\s,!]*$
       Cat(<<Word(<<"d","i","e">>), Cls(Whitespace), Word(<<"b","e","s","t","e","n">>),
             Cls(Whitespace), Word(Wuensche)>> \o TailEol),
       \* ^danke{ENG_GER_CHARS_SPACES}*[\s,!]*$
       Cat(<<Bol, Word(<<"d","a","n","k","e">>), Star(Cls(ENG_GER_CHARS_SPACES))>>
           \o TailEol),
       \* ^[a-z\s]+\ ?\/\ ?mit\ freundlichen\ grüßen[\n,!]+$
       Cat(<<Bol, Plus(Cls(AZ \cup Whitespace)), Opt(Lit(" ")), Lit("/"), Opt(Lit(" "))>>
           \o MitFreundlichenGruessen \o <<Plus(Cls({"\n", ",", "!"})), Eol>>),
       \* ^mit\ freundlichen\ grüßen\ ?\/\ ?[a-z\s]+[\n,!]+$
       Cat(<<Bol>> \o MitFreundlichenGruessen
           \o <<Opt(Lit(" ")), Lit("/"), Opt(Lit(" ")), Plus(Cls(AZ \cup Whitespace)),
                Plus(Cls({"\n", ",", "!"})), Eol>>) >>

\* ( (?: ... | ... ) .* )
RE_SIGNATURE == Cat(<<Alt(RE_SIGNATURE_ALTERNATIVES), Star(AnyChar)>>)

SentFromMy == <<Word(<<"s","e","n","t">>), Lit(" "), Word(<<"f","r","o","m">>), Lit(" "),
                Word(<<"m","y">>)>>
BlackBerry == Word(<<"b","l","a","c","k","b","e","r","r","y">>)

RE_PHONE_SIGNATURE_ALTERNATIVES ==
    << \* ^sent[ ]{1}from[ ]{1}my[\s,!\w]*$
       Cat(<<Bol>> \o SentFromMy \o <<Star(Cls(TailChars \cup WordChars)), Eol>>),
       \* ^sent[ ]from[ ]Mailbox[ ]for[ ]iPhone.*$
       Cat(<<Bol, Word(<<"s","e","n","t">>), Lit(" "), Word(<<"f","r","o","m">>), Lit(" "),
             Word(<<"m","a","i","l","b","o","x">>), Lit(" "), Word(<<"f","o","r">>),
             Lit(" "), Word(<<"i","p","h","o","n","e">>), Star(AnyChar), Eol>>),
       \* ^sent[ ]([\S]*[ ])?from[ ]my[ ]BlackBerry.*$
       Cat(<<Bol, Word(<<"s","e","n","t">>), Lit(" "),
             Opt(Cat(<<Star(NotCls(Whitespace)), Lit(" ")>>)),
             Word(<<"f","r","o","m">>), Lit(" "), Word(<<"m","y">>), Lit(" "),
             BlackBerry, Star(AnyChar), Eol>>),
       \* ^Enviado[ ]desde[ ]mi[ ]([\S]+[ ]){0,2}BlackBerry.*$
       Cat(<<Bol, Word(<<"e","n","v","i","a","d","o">>), Lit(" "),
             Word(<<"d","e","s","d","e">>), Lit(" "), Word(<<"m","i">>), Lit(" "),
             Rep(Cat(<<Plus(NotCls(Whitespace)), Lit(" ")>>), 0, 2),
             BlackBerry, Star(AnyChar), Eol>>) >>

RE_PHONE_SIGNATURE == Cat(<<Alt(RE_PHONE_SIGNATURE_ALTERNATIVES), Star(AnyChar)>>)

\* match.group() of a search whose match starts at offset start: both patterns
\* end in a greedy .* under flag S, so the alternation order decides nothing
\* and the match ends where the greedy tail ends
MatchGroup(re, s, start) == Slice(s, start, Max(Ends(re, s, {start})))

\* RE_SIGNATURE_CANDIDATE: each alternative is the group named candidate and
\* what must follow it
Run_cd == Cat(<<Plus(Lit("c")), Lit("d")>>)
RE_SIGNATURE_CANDIDATE ==
    << \* (?P<candidate>c+d)[^d]
       <<Run_cd, NotCls({"d"})>>,
       \* (?P<candidate>c+d)$
       <<Run_cd, Eol>>,
       \* (?P<candidate>c+)
       <<Plus(Lit("c")), Cat(<< >>)>>,
       \* (?P<candidate>d)[^d]
       <<Lit("d"), NotCls({"d"})>>,
       \* (?P<candidate>d)$
       <<Lit("d"), Eol>> >>

\* the ends the group of alternative k can take in a match starting at offset i
GroupEnds(k, markers, i) ==
    {e \in Ends(RE_SIGNATURE_CANDIDATE[k][1], markers, {i}) :
        Ends(RE_SIGNATURE_CANDIDATE[k][2], markers, {e}) # {}}

\* RE_SIGNATURE_CANDIDATE.search(markers): <<start, end>> of the group named
\* candidate, <<-1, -1>> for no match.  The leftmost offset wins, then the
\* first alternative, then the longest run (c+ is greedy).
SearchCandidate(markers) ==
    LET starts == {i \in 0..Len(markers) :
                      \E k \in DOMAIN RE_SIGNATURE_CANDIDATE : GroupEnds(k, markers, i) # {}}
    IN  IF starts = {} THEN <<-1, -1>>
        ELSE LET i == Min(starts)
                 k == Min({a \in DOMAIN RE_SIGNATURE_CANDIDATE : GroupEnds(a, markers, i) # {}})
             IN  <<i, Max(GroupEnds(k, markers, i))>>

(***************************************************************************)
(* The functions of the module                                             *)
(***************************************************************************)
\* talon.signature.constants
TOO_LONG_SIGNATURE_LINE == 60

\* talon.utils.get_delimiter: the line break the body uses, "\r\n" or "\n"
get_delimiter(msg_body) ==
    LET nl == {i \in DOMAIN msg_body : msg_body[i] = "\n"}
    IN  IF nl # {} /\ Min(nl) > 1 /\ msg_body[Min(nl) - 1] = "\r"
        THEN <<"\r", "\n">>
        ELSE <<"\n">>

\* the marker of one line (lines 194-199)
Marker(line) ==
    LET stripped == Strip(line)
    IN  IF Len(stripped) > TOO_LONG_SIGNATURE_LINE THEN "l"
        ELSE IF StartsWith(stripped, <<"-">>) /\ StripChars(stripped, {"-"}) # << >> THEN "d"
        ELSE "c"

\* candidate holds 0-based line indexes
_mark_candidate_indexes(lines, candidate) ==
    [i \in DOMAIN candidate |-> Marker(lines[candidate[i] + 1])]

_process_marked_candidate_indexes(candidate, markers) ==
    LET match == SearchCandidate(markers)
    IN  IF match[1] >= 0 THEN Slice(candidate, match[1], match[2] + 1) ELSE << >>

\* [i for i in range(n) if i in S], in increasing order
Indexes(n, S) == SelectSeq([k \in 1..n |-> k - 1], LAMBDA i : i \in S)

\* the first line taken as a candidate too
CandidateIndexes_first_line(non_empty) == non_empty

\* [i for i in non_empty if i > 0]
CandidateIndexes(non_empty) == {i \in non_empty : i > 0}

get_signature_candidate(lines) ==
    LET non_empty == {i \in 0..(Len(lines) - 1) : Strip(lines[i + 1]) # << >>}
        candidate == Indexes(Len(lines), CandidateIndexes(non_empty))
        markers   == _mark_candidate_indexes(lines, candidate)
        window    == _process_marked_candidate_indexes(candidate, markers)
    IN  IF Cardinality(non_empty) <= 1 THEN << >>
        ELSE IF window # << >> THEN SubSeq(lines, window[1] + 1, Len(lines))
        ELSE << >>

\* None and a str value of an optional result
None == [some |-> FALSE, val |-> << >>]
Some(s) == [some |-> TRUE, val |-> s]

\* the cut one character late
PhoneCut_off_by_one(stripped_body, start) == Slice(stripped_body, 0, start + 1)

\* line 116: stripped_body[:phone_signature.start()]
PhoneCut(stripped_body, start) == Slice(stripped_body, 0, start)

\* line 127: the return when no sign-off matches
NoSignatureResult(stripped_body, phone_signature) ==
    <<Strip(stripped_body), phone_signature>>

\* the cut one character short
CutSignature_off_by_one(joined, signature) == DropLast(joined, Len(signature) - 1)

\* line 135: stripped_body[:-len(signature)] of the re-joined lines
CutSignature(joined, signature) == DropLast(joined, Len(signature))

\* the phone footer left out of the signature
SignatureResult_no_phone(delimiter, lines, candidate, start, phone_signature) ==
    LET signature == MatchGroup(RE_SIGNATURE, candidate, start)
        body      == CutSignature(join(delimiter, lines), signature)
    IN  <<Strip(body), Some(Strip(signature))>>

\* the cleaned body returned as cut, not trimmed
SignatureResult_untrimmed(delimiter, lines, candidate, start, phone_signature) ==
    LET signature == MatchGroup(RE_SIGNATURE, candidate, start)
        body      == CutSignature(join(delimiter, lines), signature)
        full      == IF phone_signature.some /\ phone_signature.val # << >>
                     THEN join(delimiter, <<signature, phone_signature.val>>)
                     ELSE signature
    IN  <<body, Some(Strip(full))>>

\* lines 129-141: the return when the sign-off matches at offset start of the
\* candidate
SignatureResult(delimiter, lines, candidate, start, phone_signature) ==
    LET signature == MatchGroup(RE_SIGNATURE, candidate, start)
        body      == CutSignature(join(delimiter, lines), signature)
        full      == IF phone_signature.some /\ phone_signature.val # << >>
                     THEN join(delimiter, <<signature, phone_signature.val>>)
                     ELSE signature
    IN  <<Strip(body), Some(Strip(full))>>

\* the handler returning the trimmed body
ExceptResult_trimmed(msg_body) == <<Strip(msg_body), None>>

\* lines 142-144: the return of the exception handler
ExceptResult(msg_body) == <<msg_body, None>>

(***************************************************************************)
(* Inputs                                                                  *)
(***************************************************************************)
\* the most lines of a message body, and the most markers of a marker string
MaxLines == 3
MaxMarkers == 5

Hi == <<"H", "i">>
Best == <<"b", "e", "s", "t">>
DashName == <<"-", "x">>
SentFromMyPhone == <<"S","e","n","t"," ","f","r","o","m"," ","m","y">>
LongLine == [i \in 1..(TOO_LONG_SIGNATURE_LINE + 1) |-> "z"]

LineSet == {<< >>, Hi, Best, DashName, SentFromMyPhone, LongLine}
LineLists == UNION {[1..n -> LineSet] : n \in 1..MaxLines}

\* bodies with \n line breaks, with and without white space around them, and
\* bodies with \r\n line breaks
Bodies ==
    {<< >>}
    \cup {lead \o join(<<"\n">>, ls) \o trail :
            lead \in {<< >>, <<" ">>}, ls \in LineLists, trail \in {<< >>, <<"\n">>}}
    \cup {join(<<"\r", "\n">>, ls) \o trail :
            ls \in LineLists, trail \in {<< >>, <<"\r", "\n">>}}

\* the candidate indexes of the docstring of _process_marked_candidate_indexes,
\* continued for longer marker strings
ExampleIndexes == <<9, 12, 14, 15, 17>>
IndexList(n) ==
    [k \in 1..n |-> IF k <= Len(ExampleIndexes) THEN ExampleIndexes[k]
                    ELSE ExampleIndexes[Len(ExampleIndexes)] + 2 * (k - Len(ExampleIndexes))]
MarkerStrings == UNION {[1..n -> {"c", "l", "d"}] : n \in 0..MaxMarkers}

(***************************************************************************)
(* State: the arguments, locals and return value of extract_signature      *)
(* (input is the body of the first call; first is what the first call      *)
(* returned, once the caller calls again), and those of                    *)
(* _process_marked_candidate_indexes (the variables named w_...)           *)
(***************************************************************************)
VARIABLES msg_body, pc, delimiter, stripped_body, phone_signature, lines,
          candidate_lines, candidate, result, failed, run, input, first,
          w_pc, w_candidate, w_markers, w_result

vars == <<msg_body, pc, delimiter, stripped_body, phone_signature, lines,
          candidate_lines, candidate, result, failed, run, input, first,
          w_pc, w_candidate, w_markers, w_result>>
wvars == <<w_pc, w_candidate, w_markers, w_result>>
evars == <<msg_body, pc, delimiter, stripped_body, phone_signature, lines,
           candidate_lines, candidate, result, failed, run, input, first>>

NoResult == <<<< >>, None>>

Locals0 ==
    /\ delimiter = << >>
    /\ stripped_body = << >>
    /\ phone_signature = None
    /\ lines = << >>
    /\ candidate_lines = << >>
    /\ candidate = << >>
    /\ result = NoResult
    /\ failed = FALSE

Idle ==
    /\ w_pc = "idle"
    /\ w_candidate = << >>
    /\ w_markers = << >>
    /\ w_result = << >>

Init ==
    /\ msg_body \in Bodies
    /\ input = msg_body
    /\ pc = "delimiter"
    /\ run = 1
    /\ first = NoResult
    /\ Locals0
    /\ Idle

\* line 107
Delimiter ==
    /\ pc = "delimiter"
    /\ delimiter' = get_delimiter(msg_body)
    /\ pc' = "strip"
    /\ UNCHANGED <<msg_body, stripped_body, phone_signature, lines, candidate_lines,
                   candidate, result, failed, run, input, first>>
    /\ UNCHANGED wvars

\* lines 110-111
StripBody ==
    /\ pc = "strip"
    /\ stripped_body' = Strip(msg_body)
    /\ phone_signature' = None
    /\ pc' = "phone"
    /\ UNCHANGED <<msg_body, delimiter, lines, candidate_lines, candidate, result,
                   failed, run, input, first>>
    /\ UNCHANGED wvars

\* lines 114-117
StripPhone ==
    /\ pc = "phone"
    /\ LET start == SearchStart(RE_PHONE_SIGNATURE, msg_body)
       IN  IF start >= 0
           THEN /\ stripped_body' = PhoneCut(stripped_body, start)
                /\ phone_signature' = Some(MatchGroup(RE_PHONE_SIGNATURE, msg_body, start))
           ELSE UNCHANGED <<stripped_body, phone_signature>>
    /\ pc' = "candidate"
    /\ UNCHANGED <<msg_body, delimiter, lines, candidate_lines, candidate, result,
                   failed, run, input, first>>
    /\ UNCHANGED wvars

\* lines 120-122
Candidate ==
    /\ pc = "candidate"
    /\ lines' = splitlines(stripped_body)
    /\ candidate_lines' = get_signature_candidate(lines')
    /\ candidate' = join(delimiter, candidate_lines')
    /\ pc' = "signature"
    /\ UNCHANGED <<msg_body, delimiter, stripped_body, phone_signature, result,
                   failed, run, input, first>>
    /\ UNCHANGED wvars

\* lines 125-141
Signature ==
    /\ pc = "signature"
    /\ LET start == SearchStart(RE_SIGNATURE, candidate)
       IN  result' = IF start < 0
                     THEN NoSignatureResult(stripped_body, phone_signature)
                     ELSE SignatureResult(delimiter, lines, candidate, start,
                                          phone_signature)
    /\ pc' = "done"
    /\ UNCHANGED <<msg_body, delimiter, stripped_body, phone_signature, lines,
                   candidate_lines, candidate, failed, run, input, first>>
    /\ UNCHANGED wvars

\* lines 142-144: an exception raised by a statement of the try block
Except ==
    /\ pc \in {"delimiter", "strip", "phone", "candidate", "signature"}
    /\ result' = ExceptResult(msg_body)
    /\ failed' = TRUE
    /\ pc' = "done"
    /\ UNCHANGED <<msg_body, delimiter, stripped_body, phone_signature, lines,
                   candidate_lines, candidate, run, input, first>>
    /\ UNCHANGED wvars

\* the caller calls extract_signature again, on the cleaned body it got
Rerun ==
    /\ pc = "done"
    /\ run = 1
    /\ ~failed
    /\ first' = result
    /\ msg_body' = result[1]
    /\ run' = 2
    /\ pc' = "delimiter"
    /\ delimiter' = << >>
    /\ stripped_body' = << >>
    /\ phone_signature' = None
    /\ lines' = << >>
    /\ candidate_lines' = << >>
    /\ candidate' = << >>
    /\ result' = NoResult
    /\ UNCHANGED <<failed, input>>
    /\ UNCHANGED wvars

Next ==
    \/ Delimiter
    \/ StripBody
    \/ StripPhone
    \/ Candidate
    \/ Signature
    \/ Except
    \/ Rerun

Spec == Init /\ [][Next]_vars

(***************************************************************************)
(* _process_marked_candidate_indexes on every marker string                *)
(***************************************************************************)
InitWindow ==
    /\ w_markers \in MarkerStrings
    /\ w_candidate = IndexList(Len(w_markers))
    /\ w_pc = "call"
    /\ w_result = << >>
    /\ msg_body = << >>
    /\ input = << >>
    /\ pc = "idle"
    /\ run = 1
    /\ first = NoResult
    /\ Locals0

\* lines 211-212
ProcessMarked ==
    /\ w_pc = "call"
    /\ w_result' = _process_marked_candidate_indexes(w_candidate, w_markers)
    /\ w_pc' = "done"
    /\ UNCHANGED <<w_candidate, w_markers>>
    /\ UNCHANGED evars

NextWindow == ProcessMarked

SpecWindow == InitWindow /\ [][NextWindow]_vars

(***************************************************************************)
(* Properties                                                              *)
(***************************************************************************)
Returned == pc = "done" /\ ~failed
IsStr(s) == DOMAIN s = 1..Len(s) /\ \A i \in DOMAIN s : s[i] \in STRING
IsOptionalStr(o) == o = None \/ (o.some /\ IsStr(o.val))
\* s without its white space
NonWS(s) == SelectSeq(s, LAMBDA c : c \notin Whitespace)
\* where the phone footer starts in the raw body (-1: no footer), and its text
FooterStart == SearchStart(RE_PHONE_SIGNATURE, msg_body)
Footer == IF FooterStart < 0 THEN << >> ELSE Slice(msg_body, FooterStart, Len(msg_body))
\* where the sign-off starts in the candidate block (-1: no sign-off)
SignOffStart == SearchStart(RE_SIGNATURE, candidate)
\* a body that is one non-empty line
SingleLine(b) == Len(splitlines(b)) = 1 /\ Strip(b) # << >>

\* C1: extract_signature returns a well-formed pair for every body, the empty
\* one included, and when a statement of the pipeline raises, the pair is the
\* body as it was passed in and None, whatever the locals hold by then.
C1_ErrorBoundary ==
    pc = "done" =>
        /\ IsStr(result[1])
        /\ IsOptionalStr(result[2])
        /\ failed => result = <<msg_body, None>>
\* a failure after the working copy was trimmed and cut at the phone footer
C1_Witness ==
    /\ pc = "done"
    /\ failed
    /\ phone_signature.some
    /\ stripped_body # msg_body
    /\ msg_body # Strip(msg_body)
    /\ result = <<msg_body, None>>

\* C2 as stated, for a line with no white space around it: a body of a single
\* non-empty line comes back unchanged, with no signature.
C2_SingleLineUnchanged ==
    (Returned /\ SingleLine(msg_body) /\ msg_body = Strip(msg_body))
        => result = <<msg_body, None>>
\* C2 as amended: a body of a single non-empty line comes back trimmed, with no
\* signature, unless the phone-footer pattern matches it: then the cleaned body
\* is empty and the signature is the whole body.
C2_SingleLine ==
    (Returned /\ SingleLine(msg_body)) =>
        IF FooterStart >= 0
        THEN result = <<<< >>, Some(msg_body)>>
        ELSE result = <<Strip(msg_body), None>>
\* a single line that a sign-off pattern matches
C2_Witness ==
    /\ Returned
    /\ msg_body = Best
    /\ SearchStart(RE_SIGNATURE, msg_body) = 0
    /\ result = <<Best, None>>

\* C3 as stated: when the phone-footer pattern matches in the raw body, the
\* signature is present and ends with the text the pattern matched.
C3_FooterIsSuffix ==
    (Returned /\ FooterStart >= 0) =>
        /\ result[2].some
        /\ EndsWith(result[2].val, Footer)
\* C3 as amended: when the phone-footer pattern matches in the raw body, the
\* signature is present and, trailing white space aside, ends with the text
\* the pattern matched; it is the matched text as it is when no sign-off is
\* found, and the trimmed sign-off + delimiter + footer when one is found.
C3_FooterIsTrimmedSuffix ==
    (Returned /\ FooterStart >= 0) =>
        /\ result[2].some
        /\ EndsWith(Strip(result[2].val), Strip(Footer))
        /\ result[2].val =
             IF SignOffStart < 0 THEN Footer
             ELSE Strip(MatchGroup(RE_SIGNATURE, candidate, SignOffStart)
                        \o delimiter \o Footer)
\* a sign-off followed by a phone footer that ends in white space
C3_Witness ==
    /\ Returned
    /\ FooterStart >= 0
    /\ SignOffStart >= 0
    /\ Footer # Strip(Footer)
    /\ result[2].val # Footer

\* C4 as stated: for a body that ends in no white space, a second call on the
\* cleaned body returns the cleaned body and no signature.
C4_Idempotent ==
    (Returned /\ run = 2 /\ (input = << >> \/ input[Len(input)] \notin Whitespace))
        => result = <<first[1], None>>
\* C4 as amended: a second call on the cleaned body returns the cleaned body
\* unchanged whenever it finds no signature (it can find one, and then cuts
\* the body further).
C4_IdempotentUnlessSecondSignature ==
    (Returned /\ run = 2 /\ ~result[2].some) => result[1] = first[1]
\* a first call that removed a signature and a second call that found none
C4_Witness ==
    /\ Returned
    /\ run = 2
    /\ first[2].some
    /\ first[1] # Strip(input)
    /\ result = <<first[1], None>>

\* C5 as stated, on the bodies that hold no phone footer (no pattern is in a
\* reversed or nested position there): cleaned body + delimiter + signature,
\* trimmed, is the trimmed body.
C5_RoundTrip ==
    (Returned /\ result[2].some /\ FooterStart < 0) =>
        Strip(result[1] \o delimiter \o result[2].val) = Strip(msg_body)
\* C5 as amended: cleaned body + delimiter + signature has, white space
\* aside, the characters of the trimmed body cut at the footer's offset in the
\* raw body, followed by the footer; these are the characters of the body,
\* each once, when no footer matches or the raw body starts with no white space.
C5_RoundTripUpToWhitespace ==
    (Returned /\ result[2].some) =>
        LET joined == NonWS(result[1] \o delimiter \o result[2].val)
            cut    == IF FooterStart < 0 THEN Len(msg_body) ELSE FooterStart
        IN  /\ joined = NonWS(Slice(Strip(msg_body), 0, cut)) \o NonWS(Footer)
            /\ (FooterStart < 0 \/ msg_body[1] \notin Whitespace)
                   => joined = NonWS(msg_body)
\* a signature cut off after a blank line: the blank line is in neither part
C5_Witness ==
    /\ Returned
    /\ result[2].some
    /\ FooterStart < 0
    /\ result[1] # << >>
    /\ Strip(result[1] \o delimiter \o result[2].val) # Strip(msg_body)

\* C6: the window _process_marked_candidate_indexes selects is a suffix of the
\* candidate indexes (it ends at the last one), and for the indexes
\* [9, 12, 14, 15, 17] marked clddc it is [15, 17].
C6_WindowIsSuffix ==
    w_pc = "done" =>
        /\ w_result # << >> => EndsWith(w_candidate, w_result)
        /\ w_markers = <<"c", "l", "d", "d", "c">> => w_result = <<15, 17>>

\* C7: when no sign-off matches in the candidate block, the cleaned body is
\* the trimmed text before the phone footer's start (the trimmed body when
\* there is no footer).
C7_OnlyFooterRemoved ==
    (Returned /\ SignOffStart < 0) =>
        result[1] = Strip(Slice(msg_body, 0,
                                IF FooterStart < 0 THEN Len(msg_body) ELSE FooterStart))

\* C8: the cleaned body and every signature returned are trimmed.
C8_OutputsTrimmed ==
    Returned =>
        /\ result[1] = Strip(result[1])
        /\ result[2].some => result[2].val = Strip(result[2].val)

\* C9: the first line of the phone-truncated lines is never in the candidate
\* block, and its text stays at the start of the cleaned body.
C9_FirstLineKept ==
    /\ (pc \in {"signature", "done"} /\ lines # << >>)
           => Len(candidate_lines) < Len(lines)
    /\ (Returned /\ lines # << >>) => StartsWith(result[1], Strip(lines[1]))
\* a first line that is a sign-off, above a sign-off that is removed
C9_Witness ==
    /\ Returned
    /\ Len(lines) > 1
    /\ SearchStart(RE_SIGNATURE, lines[1]) = 0
    /\ result[2].some
    /\ result[1] = lines[1]

\* C10: every line of the candidate block is shorter, trimmed, than
\* TOO_LONG_SIGNATURE_LINE.
C10_NoLongLine ==
    pc \in {"signature", "done"} =>
        \A i \in DOMAIN candidate_lines :
            Len(Strip(candidate_lines[i])) < TOO_LONG_SIGNATURE_LINE
====
